---- MODULE Spec2Model ----
(***************************************************************************)
(* TransformersSummarizer (haystack/nodes/summarizer/transformers.py):     *)
(* predict and predict_batch as a state machine.  A behaviour is a caller  *)
(* holding a list of documents and a generate_single_summary argument and  *)
(* calling predict / predict_batch on summarizer instances; every call is  *)
(* one action that runs the whole method and leaves a record of it.        *)
(***************************************************************************)
EXTENDS Integers, Sequences, FiniteSets, TLC

\* ------------------------------------------------------------- bounds
MaxDocs == 3          \* documents in one input, over all its groups
MaxGroups == 3        \* groups in a nested input
MaxCalls == 2         \* calls in one behaviour
NumInstances == 2     \* summarizer instances in the process
ModelMaxLength == 4   \* the tokenizer's model_max_length

\* ------------------------------------------------------------- helpers
Min(a, b) == IF a < b THEN a ELSE b

RECURSIVE Sum(_)
Sum(s) == IF Len(s) = 0 THEN 0 ELSE Head(s) + Sum(Tail(s))

\* itertools.chain.from_iterable
RECURSIVE Chain(_)
Chain(ss) == IF Len(ss) = 0 THEN <<>> ELSE Head(ss) \o Chain(Tail(ss))

\* s[l:r] with 0-based, clamped Python slice bounds
Slice(s, l, r) == SubSeq(s, Min(l, Len(s)) + 1, Min(r, Len(s)))

\* str.join
RECURSIVE Join(_, _)
Join(sep, strs) ==
    IF Len(strs) = 0 THEN ""
    ELSE IF Len(strs) = 1 THEN strs[1]
    ELSE strs[1] \o sep \o Join(sep, Tail(strs))

\* dict.update({"context": context}) on a mapping
MetaUpdate(meta, context) ==
    [k \in DOMAIN meta \cup {"context"} |-> IF k = "context" THEN context ELSE meta[k]]

\* ------------------------------------------------------------- documents
\* haystack.schema.Document(content=..., meta=...)
Document(content, meta) == [kind |-> "Document", content |-> content, meta |-> meta]

\* variant: the Document keeps a non-empty mapping it is given (meta or {})
DocumentSharesMetaByReference(meta) == DOMAIN meta # {}

\* whether a Document built with meta=m keeps m itself rather than a copy of it
DocumentSharesMeta(meta) == FALSE

\* a Python list as an element of another list
List(items) == [kind |-> "list", items |-> items]

IsDocument(x) == x.kind = "Document"
IsList(x) == x.kind = "list"

DocShort == Document("ab", [name |-> "n1"])
DocLong == Document("cdefg", [name |-> "n2", context |-> "old"])
Docs == {DocShort, DocLong}

FlatInputs == UNION {[1..n -> Docs] : n \in 0..MaxDocs}

GroupSizes ==
    UNION {{sz \in [1..g -> 0..MaxDocs] : Sum(sz) <= MaxDocs} : g \in 1..MaxGroups}

Nest(sz, f) ==
    [i \in 1..Len(sz) |->
        List([k \in 1..sz[i] |-> f[Sum(SubSeq(sz, 1, i - 1)) + k]])]

NestedInputs == UNION {{Nest(sz, f) : f \in [1..Sum(sz) -> Docs]} : sz \in GroupSizes}

Params == {"None", "True", "False"}

\* ------------------------------------------------------------- configuration
Configs ==
    [min_length : {5, 300}, max_length : {200},
     separator_for_single_summary : {" "}, generate_single_summary : BOOLEAN]

Inst == 1..NumInstances

\* ------------------------------------------------------------- collaborators
\* self.summarizer.tokenizer(contexts): one id per character and an end marker
Tokenizer(contexts) ==
    [input_ids |-> [k \in 1..Len(contexts) |-> [t \in 1..(Len(contexts[k]) + 1) |-> t]]]

\* self.summarizer(contexts, ...): one summary per span, in the order submitted
Summarizer(contexts) ==
    [k \in 1..Len(contexts) |-> [summary_text |-> "sum(" \o contexts[k] \o ")"]]

TruncationWarning ==
    <<"One or more of your input document texts is longer than the specified maximum sequence length for this summarizer model. Generating summary from first",
      ModelMaxLength, "tokens.">>

ConfigError == "min_length cannot be greater than max_length"
InputError == "Summarizer needs at least one document to produce a summary."
IndexError == "list index out of range"

\* cfg        the configuration the instances were constructed with (lines 122-129);
\*            the instances of one behaviour are built from the same arguments
\* print_log  self.print_log of each instance (line 127)
\* documents  the caller's documents, passed to every call
\* param      the caller's generate_single_summary argument
\* log        what logger.warning has written, with the instance and method writing
\* calls      the number of calls made
\* last       the last call: what it raised or returned and what it did on the way
VARIABLES cfg, print_log, documents, param, log, calls, last
vars == <<cfg, print_log, documents, param, log, calls, last>>

NoCall == [op |-> "none"]

\* the record of a call that raised before doing anything else
Raised(op, i, msg) ==
    [op |-> op, inst |-> i, raised |-> msg, tokenizer_calls |-> 0,
     inference_calls |-> 0, warnings |-> <<>>, print_log_before |-> print_log[i]]

\* ------------------------------------------------------------- predict
\* variant: the comparison turned around
MinExceedsMaxReversed(c) == c.min_length < c.max_length

MinExceedsMax(c) == c.min_length > c.max_length

NoDocuments(docs) == Len(docs) = 0

EffectiveMode(c, p) == IF p = "None" THEN c.generate_single_summary ELSE p = "True"

PredictContexts(c, docs, gss) ==
    LET contexts == [k \in 1..Len(docs) |-> docs[k].content]
    IN IF gss THEN <<Join(c.separator_for_single_summary, contexts)>> ELSE contexts

\* variant: the warning is logged without asking print_log
RECURSIVE PredictAdviseNoDedup(_, _)
PredictAdviseNoDedup(plog, input_ids) ==
    IF Len(input_ids) = 0 THEN [print_log |-> plog, warnings |-> <<>>]
    ELSE LET over == Len(Head(input_ids)) > ModelMaxLength
             rest == PredictAdviseNoDedup(IF over THEN plog \cup {TruncationWarning} ELSE plog,
                                          Tail(input_ids))
         IN [print_log |-> rest.print_log,
             warnings |-> (IF over THEN <<TruncationWarning>> ELSE <<>>) \o rest.warnings]

\* lines 161-172: the set after the loop and the warnings logged by it
RECURSIVE PredictAdvise(_, _)
PredictAdvise(plog, input_ids) ==
    IF Len(input_ids) = 0 THEN [print_log |-> plog, warnings |-> <<>>]
    ELSE LET over == Len(Head(input_ids)) > ModelMaxLength
             emit == over /\ TruncationWarning \notin plog
             rest == PredictAdvise(IF emit THEN plog \cup {TruncationWarning} ELSE plog,
                                   Tail(input_ids))
         IN [print_log |-> rest.print_log,
             warnings |-> (IF emit THEN <<TruncationWarning>> ELSE <<>>) \o rest.warnings]

\* lines 185-193
PredictResult(docs, contexts, summaries, gss) ==
    IF gss
    THEN [k \in 1..Min(Len(contexts), Len(summaries)) |->
            Document(summaries[k].summary_text, [context |-> contexts[k]])]
    ELSE [k \in 1..Min(Min(Len(contexts), Len(summaries)), Len(docs)) |->
            Document(summaries[k].summary_text, MetaUpdate(docs[k].meta, contexts[k]))]

\* lines 190-192: what cur_doc.meta.update leaves in the caller's documents
PredictDocumentsAfter(docs, contexts, summaries, gss) ==
    IF gss THEN docs
    ELSE [k \in 1..Len(docs) |->
            IF k <= Min(Len(contexts), Len(summaries)) /\ DocumentSharesMeta(docs[k].meta)
            THEN [docs[k] EXCEPT !.meta = MetaUpdate(docs[k].meta, contexts[k])]
            ELSE docs[k]]

\* predict takes a flat list of Documents (line 131)
Predict(i) ==
    /\ calls < MaxCalls
    /\ \A k \in 1..Len(documents) : IsDocument(documents[k])
    /\ calls' = calls + 1
    /\ UNCHANGED <<cfg, param>>
    /\ IF MinExceedsMax(cfg)
       THEN /\ last' = Raised("predict", i, ConfigError)
            /\ UNCHANGED <<print_log, documents, log>>
       ELSE IF NoDocuments(documents)
       THEN /\ last' = Raised("predict", i, InputError)
            /\ UNCHANGED <<print_log, documents, log>>
       ELSE LET gss == EffectiveMode(cfg, param)
                contexts == PredictContexts(cfg, documents, gss)
                encoded_input == Tokenizer(contexts)
                adv == PredictAdvise(print_log[i], encoded_input.input_ids)
                summaries == Summarizer(contexts)
            IN /\ print_log' = [print_log EXCEPT ![i] = adv.print_log]
               /\ log' = log \o [k \in 1..Len(adv.warnings) |->
                                    [inst |-> i, op |-> "predict", msg |-> adv.warnings[k]]]
               /\ documents' = PredictDocumentsAfter(documents, contexts, summaries, gss)
               /\ last' = [op |-> "predict", inst |-> i, raised |-> "",
                           generate_single_summary |-> gss, single_doc_list |-> TRUE,
                           contexts |-> contexts, number_of_docs |-> <<>>,
                           inference_input |-> contexts, summaries |-> summaries,
                           grouped_summaries |-> <<>>,
                           result |-> PredictResult(documents, contexts, summaries, gss),
                           tokenizer_calls |-> 1, inference_calls |-> 1,
                           warnings |-> adv.warnings,
                           print_log_before |-> print_log[i]]

\* ------------------------------------------------------------- predict_batch
\* variant: only the first group is looked at
NoDocumentsBatchFirstOnly(docs) ==
    \/ Len(docs) = 0
    \/ IsList(docs[1]) /\ Len(docs[1].items) = 0

\* lines 220-222
NoDocumentsBatch(docs) ==
    \/ Len(docs) = 0
    \/ /\ IsList(docs[1])
       /\ \A k \in 1..Len(docs) : IsList(docs[k]) => Len(docs[k].items) = 0

\* lines 231-233
SingleDocList(docs) == IsDocument(docs[1])

\* lines 235-242: a list of texts, or a list of lists of texts
BatchTexts(docs, single_doc_list) ==
    IF single_doc_list
    THEN LET ds == SelectSeq(docs, IsDocument)
         IN [k \in 1..Len(ds) |-> ds[k].content]
    ELSE LET ls == SelectSeq(docs, IsList)
         IN [g \in 1..Len(ls) |->
                LET ds == SelectSeq(ls[g].items, IsDocument)
                IN [k \in 1..Len(ds) |-> ds[k].content]]

\* variant: merged mode leaves out the groups that have no document
BatchContextsSkipEmpty(c, texts, single_doc_list, gss) ==
    IF gss
    THEN IF single_doc_list
         THEN <<Join(c.separator_for_single_summary, texts)>>
         ELSE LET full == SelectSeq(texts, LAMBDA t : Len(t) > 0)
              IN [g \in 1..Len(full) |-> Join(c.separator_for_single_summary, full[g])]
    ELSE IF single_doc_list THEN texts ELSE Chain(texts)

\* lines 244-255: the flat list of spans
BatchContexts(c, texts, single_doc_list, gss) ==
    IF gss
    THEN IF single_doc_list
         THEN <<Join(c.separator_for_single_summary, texts)>>
         ELSE [g \in 1..Len(texts) |-> Join(c.separator_for_single_summary, texts[g])]
    ELSE IF single_doc_list THEN texts ELSE Chain(texts)

\* lines 249, 252, 254
\* variant: a nested input counts its groups' documents in merged mode too
NumberOfDocsGroupLen(c, texts, single_doc_list, gss) ==
    IF single_doc_list
    THEN [k \in 1..Len(BatchContexts(c, texts, single_doc_list, gss)) |-> 1]
    ELSE [g \in 1..Len(texts) |-> Len(texts[g])]

NumberOfDocs(c, texts, single_doc_list, gss) ==
    IF gss
    THEN [g \in 1..Len(BatchContexts(c, texts, single_doc_list, gss)) |-> 1]
    ELSE IF single_doc_list
         THEN [k \in 1..Len(texts) |-> 1]
         ELSE [g \in 1..Len(texts) |-> Len(texts[g])]

\* variant: the loop does not stop at the first over-long span
RECURSIVE BatchAdviseNoBreak(_)
BatchAdviseNoBreak(input_ids) ==
    IF Len(input_ids) = 0 THEN <<>>
    ELSE (IF Len(Head(input_ids)) > ModelMaxLength THEN <<TruncationWarning>> ELSE <<>>)
         \o BatchAdviseNoBreak(Tail(input_ids))

\* lines 258-268: the warnings logged by the loop, which stops at the first
RECURSIVE BatchAdvise(_)
BatchAdvise(input_ids) ==
    IF Len(input_ids) = 0 THEN <<>>
    ELSE IF Len(Head(input_ids)) > ModelMaxLength THEN <<TruncationWarning>>
    ELSE BatchAdvise(Tail(input_ids))

\* variant: left_idx is not moved on after a group
RECURSIVE GroupFromStuck(_, _, _)
GroupFromStuck(number_of_docs, xs, left_idx) ==
    IF Len(number_of_docs) = 0 THEN <<>>
    ELSE <<Slice(xs, left_idx, left_idx + Head(number_of_docs))>>
         \o GroupFromStuck(Tail(number_of_docs), xs, left_idx)

\* lines 292-298: xs cut at the running boundaries of number_of_docs
RECURSIVE GroupFrom(_, _, _)
GroupFrom(number_of_docs, xs, left_idx) ==
    IF Len(number_of_docs) = 0 THEN <<>>
    ELSE LET right_idx == left_idx + Head(number_of_docs)
         IN <<Slice(xs, left_idx, right_idx)>>
            \o GroupFrom(Tail(number_of_docs), xs, right_idx)

Group(number_of_docs, xs) == GroupFrom(number_of_docs, xs, 0)

\* lines 302-305
CurSummaries(summary_group, context_group) ==
    [k \in 1..Min(Len(summary_group), Len(context_group)) |->
        Document(summary_group[k].summary_text, [context |-> context_group[k]])]

\* variant: the flat input's Results are wrapped like a nested input's
UnwrapAlwaysList(cur_summaries, single_doc_list) == List(cur_summaries)

\* lines 306-309
Unwrap(cur_summaries, single_doc_list) ==
    IF single_doc_list THEN cur_summaries[1] ELSE List(cur_summaries)

\* lines 300-309
BatchResult(grouped_summaries, grouped_contexts, single_doc_list) ==
    [g \in 1..Min(Len(grouped_summaries), Len(grouped_contexts)) |->
        Unwrap(CurSummaries(grouped_summaries[g], grouped_contexts[g]), single_doc_list)]

\* line 307 with an empty cur_summaries
BatchIndexError(grouped_summaries, grouped_contexts, single_doc_list) ==
    /\ single_doc_list
    /\ \E g \in 1..Min(Len(grouped_summaries), Len(grouped_contexts)) :
          Len(grouped_summaries[g]) = 0 \/ Len(grouped_contexts[g]) = 0

PredictBatch(i) ==
    /\ calls < MaxCalls
    /\ calls' = calls + 1
    /\ UNCHANGED <<cfg, param, print_log, documents>>
    /\ IF MinExceedsMax(cfg)
       THEN /\ last' = Raised("predict_batch", i, ConfigError)
            /\ UNCHANGED log
       ELSE IF NoDocumentsBatch(documents)
       THEN /\ last' = Raised("predict_batch", i, InputError)
            /\ UNCHANGED log
       ELSE LET gss == EffectiveMode(cfg, param)
                single_doc_list == SingleDocList(documents)
                texts == BatchTexts(documents, single_doc_list)
                contexts == BatchContexts(cfg, texts, single_doc_list, gss)
                number_of_docs == NumberOfDocs(cfg, texts, single_doc_list, gss)
                encoded_input == Tokenizer(contexts)
                warnings == BatchAdvise(encoded_input.input_ids)
                summaries == Summarizer(contexts)
                grouped_summaries == Group(number_of_docs, summaries)
                grouped_contexts == Group(number_of_docs, contexts)
                failed == BatchIndexError(grouped_summaries, grouped_contexts,
                                          single_doc_list)
            IN /\ log' = log \o [k \in 1..Len(warnings) |->
                                    [inst |-> i, op |-> "predict_batch", msg |-> warnings[k]]]
               /\ last' = [op |-> "predict_batch", inst |-> i,
                           raised |-> IF failed THEN IndexError ELSE "",
                           generate_single_summary |-> gss,
                           single_doc_list |-> single_doc_list,
                           contexts |-> contexts, number_of_docs |-> number_of_docs,
                           inference_input |-> contexts, summaries |-> summaries,
                           grouped_summaries |-> grouped_summaries,
                           result |-> IF failed THEN <<>>
                                      ELSE BatchResult(grouped_summaries, grouped_contexts,
                                                       single_doc_list),
                           tokenizer_calls |-> 1, inference_calls |-> 1,
                           warnings |-> warnings,
                           print_log_before |-> print_log[i]]

\* ------------------------------------------------------------- specifications
InitCommon ==
    /\ cfg \in Configs
    /\ print_log = [i \in Inst |-> {}]
    /\ param \in Params
    /\ log = <<>>
    /\ calls = 0
    /\ last = NoCall

\* one instance, every shape of input
Init == InitCommon /\ documents \in FlatInputs \cup NestedInputs

Next == Predict(1) \/ PredictBatch(1)

Spec == Init /\ [][Next]_vars

\* several instances sharing the process's logger, flat inputs
InitLog == InitCommon /\ documents \in FlatInputs

NextLog == \E i \in Inst : Predict(i) \/ PredictBatch(i)

SpecLog == InitLog /\ [][NextLog]_vars

\* ------------------------------------------------------------- properties
Returned(op) == last.op = op /\ last.raised = ""
Called == last.op # "none"
ValidConfig == cfg.min_length <= cfg.max_length
IsFlat(docs) == \A k \in 1..Len(docs) : docs[k].kind = "Document"
IsNested(docs) == Len(docs) > 0 /\ \A k \in 1..Len(docs) : docs[k].kind = "list"
TokenCount(span) == Len(Tokenizer(<<span>>).input_ids[1])
OverLong(spans) == {k \in 1..Len(spans) : TokenCount(spans[k]) > ModelMaxLength}
Contents(ds) == [k \in 1..Len(ds) |-> ds[k].content]
GroupLens(docs) == [g \in 1..Len(docs) |-> Len(docs[g].items)]
Offset(counts, i) == Sum(SubSeq(counts, 1, i - 1))

\* C1: after every predict_batch call that returns, the recorded span counts sum
\* to the number of spans submitted, which is the number of summaries collected,
\* and the groups cut from the summaries are the summaries, each taken once.
SpanCountsCoverSummaries ==
    Returned("predict_batch") =>
        /\ Sum(last.number_of_docs) = Len(last.inference_input)
        /\ Len(last.inference_input) = Len(last.summaries)
        /\ Len(last.grouped_summaries) = Len(last.number_of_docs)
        /\ \A g \in 1..Len(last.number_of_docs) :
              Len(last.grouped_summaries[g]) = last.number_of_docs[g]
        /\ Chain(last.grouped_summaries) = last.summaries

SpanCountsWitness ==
    /\ Returned("predict_batch")
    /\ last.generate_single_summary
    /\ ~last.single_doc_list
    /\ GroupLens(documents) = <<2, 0, 1>>
    /\ last.number_of_docs = <<1, 1, 1>>

\* C2: for a non-empty flat input under a valid configuration, predict and
\* predict_batch return, and return Documents (no list among them): as many as
\* the input has in per-document mode, one in merged mode.
FlatInputFlatResult ==
    (Called /\ ValidConfig /\ IsFlat(documents) /\ Len(documents) > 0) =>
        /\ last.raised = ""
        /\ \A k \in 1..Len(last.result) : last.result[k].kind = "Document"
        /\ Len(last.result) = IF last.generate_single_summary THEN 1 ELSE Len(documents)

FlatResultWitness ==
    /\ Returned("predict_batch")
    /\ IsFlat(documents) /\ Len(documents) = 3
    /\ ~last.generate_single_summary
    /\ Len(last.result) = 3

\* C3: for a nested input, predict_batch returns one list per recorded count, in
\* order; list i holds number_of_docs[i] Results, Result k built from the summary
\* and the span at flat position offset_i + k, the summary being the engine's for
\* that span.  In per-document mode list i has as many Results as group i has
\* documents (none for an empty group) and Result k's context is document k's text.
RegroupingKeepsOrder ==
    (Returned("predict_batch") /\ IsNested(documents)) =>
        /\ Len(last.result) = Len(last.number_of_docs)
        /\ \A i \in 1..Len(last.result) :
              /\ last.result[i].kind = "list"
              /\ Len(last.result[i].items) = last.number_of_docs[i]
              /\ \A k \in 1..Len(last.result[i].items) :
                    LET j == Offset(last.number_of_docs, i) + k
                        r == last.result[i].items[k]
                    IN /\ r.content = last.summaries[j].summary_text
                       /\ r.meta["context"] = last.inference_input[j]
                       /\ r.content = "sum(" \o r.meta["context"] \o ")"
        /\ ~last.generate_single_summary =>
              /\ Len(last.result) = Len(documents)
              /\ \A i \in 1..Len(documents) :
                    /\ Len(last.result[i].items) = Len(documents[i].items)
                    /\ \A k \in 1..Len(documents[i].items) :
                          last.result[i].items[k].meta["context"]
                              = documents[i].items[k].content

RegroupingWitness ==
    /\ Returned("predict_batch")
    /\ ~last.generate_single_summary
    /\ documents = <<List(<<DocShort, DocLong>>), List(<<>>), List(<<DocShort>>)>>
    /\ Len(last.result[1].items) = 2
    /\ last.result[2] = List(<<>>)
    /\ last.result[3] = List(<<Document("sum(ab)", [context |-> "ab"])>>)

\* C4: with min_length > max_length every call, whatever the input, raises the
\* configuration error having called neither the tokenizer nor the inference
\* engine; nothing is logged and no instance's print_log changes.
ConfigCheckedFirst ==
    (Called /\ cfg.min_length > cfg.max_length) =>
        /\ last.raised = ConfigError
        /\ last.tokenizer_calls = 0
        /\ last.inference_calls = 0
        /\ last.warnings = <<>>
        /\ log = <<>>
        /\ \A i \in Inst : print_log[i] = {}

ConfigWitness ==
    /\ last.op = "predict_batch"
    /\ last.raised = ConfigError
    /\ documents = <<>>
    /\ calls = 2

\* C5: under a valid configuration the empty input makes predict and
\* predict_batch raise the input error, and so does a nested input whose groups
\* are all empty; no result exists and the inference engine was not called.  A
\* nested input with a non-empty group at any position does not raise it.
EmptyInputRejected ==
    (Called /\ ValidConfig) =>
        /\ (\/ documents = <<>>
            \/ /\ IsNested(documents)
               /\ \A g \in 1..Len(documents) : Len(documents[g].items) = 0)
           => /\ last.raised = InputError
              /\ last.inference_calls = 0
              /\ "result" \notin DOMAIN last
        /\ (/\ IsNested(documents)
            /\ \E g \in 1..Len(documents) : Len(documents[g].items) > 0)
           => /\ last.raised # InputError
              /\ last.inference_calls = 1

EmptyInputWitness ==
    /\ last.op = "predict_batch"
    /\ documents = <<List(<<>>), List(<<>>)>>
    /\ last.raised = InputError

\* C6: in per-document mode every Result of predict and of predict_batch carries
\* each field of its document's metadata other than context, unchanged, and
\* context is the span's text; in merged mode the metadata is context alone.
MetadataCarried ==
    LET Carries(r, d) ==
            /\ \A f \in DOMAIN d.meta \ {"context"} :
                  f \in DOMAIN r.meta /\ r.meta[f] = d.meta[f]
            /\ r.meta["context"] = d.content
        Merged(r) == DOMAIN r.meta = {"context"}
    IN (Called /\ last.raised = "") =>
          IF last.generate_single_summary
          THEN \A k \in 1..Len(last.result) :
                  IF last.single_doc_list THEN Merged(last.result[k])
                  ELSE \A n \in 1..Len(last.result[k].items) :
                          Merged(last.result[k].items[n])
          ELSE \A k \in 1..Len(documents) :
                  IF last.single_doc_list THEN Carries(last.result[k], documents[k])
                  ELSE \A n \in 1..Len(documents[k].items) :
                          Carries(last.result[k].items[n], documents[k].items[n])

PredictLogged(i) ==
    {k \in 1..Len(log) :
        log[k].op = "predict" /\ log[k].inst = i /\ log[k].msg = TruncationWarning}

BatchAdvisoryOncePerCall ==
    /\ [](Returned("predict_batch") =>
            /\ last.warnings =
                  IF OverLong(last.contexts) # {} THEN <<TruncationWarning>> ELSE <<>>
            /\ last.inference_calls = 1
            /\ last.inference_input = last.contexts
            /\ Len(last.summaries) = Len(last.contexts))
    /\ [][(calls' = calls + 1 /\ last'.op = "predict_batch") =>
            /\ print_log' = print_log
            /\ last'.raised = "" =>
                  Len(log') = Len(log) + (IF OverLong(last'.contexts) # {} THEN 1 ELSE 0)
            /\ last'.raised # "" => log' = log]_vars

BatchAdvisoryWitness ==
    /\ Returned("predict_batch")
    /\ calls = 2
    /\ Cardinality(OverLong(last.contexts)) >= 2
    /\ TruncationWarning \in print_log[last.inst]
    /\ last.warnings = <<TruncationWarning>>
    /\ Len(log) = 2

\* C9: in merged mode every group gives exactly one span, its documents' texts
\* joined in order with the separator, and its Result's context is that span; a
\* flat input is one group; an empty group of a nested input gives the span ""
\* and gets a Result, so there are as many spans as groups.
MergedSpans ==
    /\ Join(" ", <<"A. B. C.", "D. E. F.">>) = "A. B. C. D. E. F."
    /\ (Called /\ last.raised = "" /\ last.generate_single_summary) =>
          IF last.single_doc_list
          THEN /\ last.inference_input
                    = <<Join(cfg.separator_for_single_summary, Contents(documents))>>
               /\ Len(last.result) = 1
               /\ last.result[1].meta["context"] = last.inference_input[1]
               /\ documents = <<DocShort, DocLong>> => last.inference_input = <<"ab cdefg">>
          ELSE /\ Len(last.inference_input) = Len(documents)
               /\ Len(last.result) = Len(documents)
               /\ \A g \in 1..Len(documents) :
                     /\ last.inference_input[g]
                           = Join(cfg.separator_for_single_summary,
                                  Contents(documents[g].items))
                     /\ Len(documents[g].items) = 0 => last.inference_input[g] = ""
                     /\ Len(last.result[g].items) = 1
                     /\ last.result[g].items[1].meta["context"] = last.inference_input[g]

MergedSpansWitness ==
    /\ Returned("predict_batch")
    /\ last.generate_single_summary
    /\ documents = <<List(<<>>), List(<<DocShort, DocLong>>)>>
    /\ last.inference_input = <<"", "ab cdefg">>
    /\ Len(last.result) = 2

====
